---- MODULE Spec2Model ----
(***************************************************************************)
(* Model of src/pglite-driver.ts: the pool/client class returned by        *)
(* getPool, which lets a pg-style caller (connect / query / end) drive an  *)
(* embedded PGlite engine.                                                 *)
(*                                                                         *)
(* Every async method is a process that runs atomically between its await  *)
(* points; the engine (PGlite.create / query / exec / close) and the       *)
(* parser (parseQuerySync) are collaborators whose outcome is chosen       *)
(* nondeterministically when the awaited promise settles.                  *)
(***************************************************************************)
EXTENDS Integers, Sequences, FiniteSets, Bags, TLC

(***************************************************************************)
(* Bounds.                                                                 *)
(***************************************************************************)
\* calls issued in one behaviour (connect, query and end together)
MaxCalls == 3
\* handles (instances of the pool class)
NumHandles == 1

\* numbers handed to the boolean serializer range over -MaxNum..MaxNum
MaxNum == 2

Handles == 1..NumHandles

(***************************************************************************)
(* JavaScript values, tagged by their typeof.                              *)
(***************************************************************************)
Undefined == [t |-> "undefined"]
Null == [t |-> "null"]
Num(n) == [t |-> "number", v |-> n]
Str(s) == [t |-> "string", v |-> s]
Bool(b) == [t |-> "boolean", v |-> b]
Arr(s) == [t |-> "array", v |-> s]
Fn(name) == [t |-> "function", v |-> name]
Err(name) == [t |-> "error", v |-> name]
Handle(h) == [t |-> "handle", v |-> h]

\* o.k
Get(o, k) == IF k \in DOMAIN o THEN o[k] ELSE Undefined

IsNullish(x) == x.t \in {"undefined", "null"}

\* o?.k
OptGet(o, k) == IF IsNullish(o) THEN Undefined ELSE Get(o, k)

\* x ?? d
Coalesce(x, d) == IF IsNullish(x) THEN d ELSE x

\* the truthiness test of `if (x)`
Truthy(x) ==
    CASE x.t \in {"undefined", "null"} -> FALSE
      [] x.t = "number" -> x.v # 0
      [] x.t = "string" -> x.v # ""
      [] OTHER -> TRUE

\* typeof x === 'function'
IsFunction(x) == x.t = "function"

\* arr[i] with a zero-based index
At(arr, i) == IF i + 1 \in DOMAIN arr.v THEN arr.v[i + 1] ELSE Undefined

\* const noop = () => {}
noop == Fn("noop")

(***************************************************************************)
(* Errors.                                                                 *)
(***************************************************************************)
\* new Error('expected connection to be initialized, ...')
NotInitializedError == Err("expected connection to be initialized")
\* thrown by parseQuerySync
ParseError == Err("parse error")
\* thrown by PGlite.create
CreateError == Err("create failed")
\* thrown by connection.query / connection.exec
ExecError == Err("engine rejected the query")
\* thrown by connection.close
CloseError == Err("close failed")
\* thrown by calling a method of null
NullDerefError == Err("TypeError: cannot read properties of null")
\* thrown by a caller's callback
CallbackError == Err("callback threw")

(***************************************************************************)
(* The SQL parser collaborator.  A SQL text is the sequence of its         *)
(* top-level statements, each named by the node kind the parser gives it;  *)
(* "?" is text the parser rejects.                                         *)
(***************************************************************************)
StmtKinds == {"UpdateStmt", "DeleteStmt", "InsertStmt", "SelectStmt", "CreateStmt"}

SqlTexts ==
    {<<k>> : k \in StmtKinds} \cup
    {<<"?">>, <<"CreateStmt", "InsertStmt">>}

\* a parser that accepts every text
ParseNeverFails(sql) == FALSE

\* parseQuerySync throws on a text with a statement it cannot parse
ParseFails(sql) == \E i \in DOMAIN sql : sql[i] = "?"

\* statements told apart by more than their kind: two inserts of different
\* values, and the transaction commands
InsertedValue == [InsertA |-> "a", InsertB |-> "b"]
TransactionCommands == {"BEGIN", "COMMIT", "ROLLBACK"}

\* the node kind the parser gives a statement
KindOf(stmt) ==
    IF stmt \in DOMAIN InsertedValue THEN "InsertStmt"
    ELSE IF stmt \in TransactionCommands THEN "TransactionStmt"
    ELSE stmt

\* one entry of stmts: { stmt: { <Kind>: {...} } }
RawStmt(kind) == [t |-> "object", stmt |-> ([t |-> "object"] @@ (kind :> [t |-> "object"]))]

\* parseQuerySync(sql), for a text it accepts
parseQuerySync(sql) == [t |-> "object", stmts |-> Arr([i \in DOMAIN sql |-> RawStmt(KindOf(sql[i]))])]

(***************************************************************************)
(* The engine collaborator's results.                                      *)
(***************************************************************************)
EngineResult(rows, fields, affectedRows) ==
    [t |-> "object", rows |-> rows, fields |-> fields, affectedRows |-> affectedRows]

Row1 == [t |-> "object", id |-> Num(1)]
Field1 == [t |-> "object", name |-> Str("id"), dataTypeID |-> Num(23)]

\* result objects connection.query may resolve with
QueryResults ==
    { EngineResult(Arr(<<Row1>>), Arr(<<Field1>>), Undefined),
      EngineResult(Arr(<<>>), Arr(<<>>), Num(0)),
      EngineResult(Arr(<<>>), Arr(<<>>), Num(1)),
      EngineResult(Undefined, Undefined, Undefined) }

\* result of a later statement of a script
LaterResult == EngineResult(Arr(<<Row1, Row1>>), Arr(<<Field1, Field1>>), Num(2))

\* arrays connection.exec may resolve with
ExecResults ==
    {Arr(<<>>), Arr(<<LaterResult>>)} \cup {Arr(<<r, LaterResult>>) : r \in QueryResults}

(***************************************************************************)
(* getPool(pgliteOptions): the options handed to PGlite.create.            *)
(***************************************************************************)
\* an object literal with the given properties
ObjectOf(props) == ("t" :> "object") @@ props

\* ...o inside an object literal: the own properties of o, none for nullish
Spread(o) == IF IsNullish(o) THEN <<>> ELSE [k \in DOMAIN o \ {"t"} |-> o[k]]

\* nothing built or applied yet
NotYet == [t |-> "none"]

\* the engine's database left out of the picture
NoDatabase == [t |-> "none"]

\* the built-in serializer without its number cases
BoolSerializerNoNumbers(v) ==
    IF v = Str("true") THEN Str("TRUE")
    ELSE IF v = Bool(TRUE) THEN Str("TRUE")
    ELSE IF v = Str("false") THEN Str("FALSE")
    ELSE IF v = Bool(FALSE) THEN Str("FALSE")
    ELSE v

\* [types.BOOL]: val => { ... }
BoolSerializer(v) ==
    IF v = Str("true") THEN Str("TRUE")
    ELSE IF v = Bool(TRUE) THEN Str("TRUE")
    ELSE IF v = Str("false") THEN Str("FALSE")
    ELSE IF v = Bool(FALSE) THEN Str("FALSE")
    ELSE IF v = Num(1) THEN Str("TRUE")
    ELSE IF v = Num(0) THEN Str("FALSE")
    ELSE v

\* the arrow function registered under types.BOOL
BuiltIn == Fn("boolSerializer")

\* the registry replaced wholesale by the caller's
SerializerRegistryWholesale(opts) ==
    Coalesce(OptGet(opts, "serializers"), ObjectOf("BOOL" :> BuiltIn))

\* serializers: { [types.BOOL]: ..., ...pgliteOptions?.serializers }
\* (a later property of an object literal overrides an earlier one)
SerializerRegistry(opts) ==
    ObjectOf(Spread(OptGet(opts, "serializers")) @@ ("BOOL" :> BuiltIn))

\* { ...pgliteOptions, serializers: { ... } }
CreateOptions(opts) ==
    ObjectOf(("serializers" :> SerializerRegistry(opts)) @@ Spread(opts))

\* calling a registered serializer: the built-in one is the function above,
\* a caller's one returns a value of its own
ApplySerializer(fn, v) ==
    IF fn = BuiltIn THEN BoolSerializer(v)
    ELSE [t |-> "serialized", by |-> fn.v, arg |-> v]

\* type identifiers a caller may register serializers for: types.BOOL and
\* one other
CallerSerializer == [BOOL |-> Fn("callerBool"), TEXT |-> Fn("callerText")]

CallerRegistries ==
    {ObjectOf([k \in ks |-> CallerSerializer[k]]) : ks \in SUBSET {"BOOL", "TEXT"}}

\* other configuration keys of PGliteOptions
OtherOptions == [dataDir |-> Str("memory://"), debug |-> Num(1)]

PgliteOptionsSet ==
    {Undefined} \cup
    {ObjectOf([k \in ks |-> OtherOptions[k]]) : ks \in SUBSET {"dataDir", "debug"}} \cup
    {ObjectOf(("serializers" :> r) @@ [k \in ks |-> OtherOptions[k]]) :
        r \in CallerRegistries, ks \in SUBSET {"dataDir", "debug"}}

\* values a query parameter of boolean type may have
SerializerInputs ==
    {Undefined, Null, Bool(TRUE), Bool(FALSE)}
    \cup {Str(x) : x \in {"true", "false", "TRUE", "FALSE", "t", "1", "0", ""}}
    \cup {Num(n) : n \in -MaxNum..MaxNum}

(***************************************************************************)
(* State.                                                                  *)
(***************************************************************************)
VARIABLES
    connection,   \* connection[h]: 0 for null, else the engine instance held
    engines,      \* engines[i]: the i-th instance PGlite.create produced
    createCalls,  \* createCalls[h]: calls of PGlite.create made by handle h
    issued,       \* number of calls issued so far
    calls,        \* the bag of calls in flight
    settled,      \* the call that ran to completion last, as its caller saw it
    pgliteOptions,  \* the argument of getPool
    createOptions,  \* the argument built for PGlite.create
    val,            \* the value last handed to the boolean type's serializer
    serialized,     \* what that serializer returned
    database        \* the database of the engine instance, where it is modelled

vars == <<connection, engines, createCalls, issued, calls, settled,
          pgliteOptions, createOptions, val, serialized, database>>

poolVars == <<connection, engines, createCalls, issued, calls, settled>>
optionVars == <<pgliteOptions, createOptions, val, serialized, database>>

Pending == [state |-> "pending", value |-> Undefined]
Resolved(v) == [state |-> "resolved", value |-> v]
Rejected(e) == [state |-> "rejected", value |-> e]

\* a call of connect, query or end: its arguments, locals and observations
NewCall(kind, h) ==
    [kind |-> kind, h |-> h, pc |-> "start",
     sql |-> <<>>, arg2 |-> Undefined, arg3 |-> Undefined,
     queryCb |-> Undefined, queryParams |-> Undefined,
     path |-> "none", inst |-> 0, before |-> 0,
     parseCalls |-> 0, engCalls |-> <<>>, engReturn |-> Undefined,
     createCalls |-> 0, closeCalls |-> 0,
     resumed |-> 0, after |-> 0,
     cbLog |-> <<>>, cbHeld |-> <<>>, promise |-> Pending]

NoCall == NewCall("none", 0)

\* calling cb(args): recorded when cb is callable (cb?.(...))
Invoke(log, cb, args) ==
    IF IsFunction(cb) THEN Append(log, [fn |-> cb.v, args |-> args]) ELSE log

\* whether a call of cb may throw: only a callable can
MayThrow(cb) == IF IsFunction(cb) THEN BOOLEAN ELSE {FALSE}

\* the calls in flight
InFlight == BagToSet(calls)

\* the completed call, with what the handle held when its last step began
\* and what it holds now that the call is over
Completed(c) ==
    [c EXCEPT !.pc = "done", !.resumed = connection[c.h], !.after = connection'[c.h]]

\* a new call ran to completion without suspending
Return(c) ==
    /\ UNCHANGED optionVars
    /\ UNCHANGED calls
    /\ settled' = Completed(c)

\* a new call suspends at its first await
Await(c) ==
    /\ UNCHANGED optionVars
    /\ calls' = calls (+) SetToBag({c})
    /\ UNCHANGED settled

\* the call in flight as `old` resumes and suspends again as c
Suspend(old, c) ==
    /\ UNCHANGED optionVars
    /\ calls' = (calls (-) SetToBag({old})) (+) SetToBag({c})
    /\ UNCHANGED settled

\* the call in flight as `old` resumes and runs to completion as c
Finish(old, c) ==
    /\ UNCHANGED optionVars
    /\ calls' = calls (-) SetToBag({old})
    /\ settled' = Completed(c)

Init ==
    /\ connection = [h \in Handles |-> 0]
    /\ engines = <<>>
    /\ createCalls = [h \in Handles |-> 0]
    /\ issued = 0
    /\ calls = EmptyBag
    /\ settled = NoCall
    /\ pgliteOptions = Undefined
    /\ createOptions = NotYet
    /\ val = NotYet
    /\ serialized = NotYet
    /\ database = NoDatabase

(***************************************************************************)
(* connect(callback)                                                       *)
(***************************************************************************)
\* connect without the early return: it always creates an engine
ConnectCallAlwaysCreating(h, throws) ==
    /\ issued < MaxCalls
    /\ issued' = issued + 1
    /\ throws = FALSE
    /\ UNCHANGED <<connection, engines>>
    /\ createCalls' = [createCalls EXCEPT ![h] = @ + 1]
    /\ Await([NewCall("connect", h) EXCEPT
                !.arg2 = Fn("callback"), !.before = connection[h],
                !.pc = "awaitCreate", !.createCalls = 1])

\* connect taking up again an instance the handle created before
ConnectCallReviving(h, throws) ==
    /\ issued < MaxCalls
    /\ issued' = issued + 1
    /\ LET c == [NewCall("connect", h) EXCEPT
                    !.arg2 = Fn("callback"), !.before = connection[h]]
           mine == {i \in DOMAIN engines : engines[i].owner = h}
       IN IF connection[h] # 0 \/ mine # {}
          THEN /\ connection' = [connection EXCEPT ![h] =
                                    IF @ # 0 THEN @ ELSE CHOOSE i \in mine : TRUE]
               /\ UNCHANGED <<engines, createCalls>>
               /\ Return([c EXCEPT
                    !.cbLog = Invoke(c.cbLog, c.arg2, <<Null, Handle(h), noop>>),
                    !.cbHeld = Append(@, connection[h]),
                    !.promise = IF throws THEN Rejected(CallbackError)
                                ELSE Resolved(Undefined)])
          ELSE /\ throws = FALSE
               /\ UNCHANGED <<connection, engines>>
               /\ createCalls' = [createCalls EXCEPT ![h] = @ + 1]
               /\ Await([c EXCEPT !.pc = "awaitCreate", !.createCalls = 1])

\* connect up to its await: the early return, or the call of PGlite.create
ConnectCall(h, throws) ==
    /\ issued < MaxCalls
    /\ issued' = issued + 1
    /\ LET c == [NewCall("connect", h) EXCEPT
                    !.arg2 = Fn("callback"), !.before = connection[h]]
       IN IF connection[h] # 0
          THEN /\ UNCHANGED <<connection, engines, createCalls>>
               /\ Return([c EXCEPT
                    !.cbLog = Invoke(c.cbLog, c.arg2, <<Null, Handle(h), noop>>),
                    !.cbHeld = Append(@, connection[h]),
                    !.promise = IF throws THEN Rejected(CallbackError)
                                ELSE Resolved(Undefined)])
          ELSE /\ throws = FALSE
               /\ UNCHANGED <<connection, engines>>
               /\ createCalls' = [createCalls EXCEPT ![h] = @ + 1]
               /\ Await([c EXCEPT !.pc = "awaitCreate", !.createCalls = 1])

\* the created instance stored in a field all handles of the class share
ConnectCreatedShared(c0, throws) ==
    /\ c0 \in InFlight
    /\ c0.pc = "awaitCreate"
    /\ LET c == c0
           inst == Len(engines) + 1
           log1 == Invoke(c.cbLog, c.arg2, <<Null, Handle(c.h), noop>>)
           log2 == Invoke(log1, c.arg2, <<CallbackError, Null, noop>>)
       IN /\ engines' = Append(engines, [owner |-> c.h, closeCalls |-> 0, closed |-> FALSE])
          /\ connection' = [h \in DOMAIN connection |-> inst]
          /\ Finish(c0, [c EXCEPT !.inst = inst,
                              !.engReturn = [t |-> "engine", v |-> inst],
                              !.cbLog = IF throws[1] THEN log2 ELSE log1,
                              !.cbHeld = IF throws[1] THEN <<inst, inst>> ELSE <<inst>>,
                              !.promise = IF throws[1] /\ throws[2]
                                          THEN Rejected(CallbackError)
                                          ELSE Resolved(Undefined)])
          /\ UNCHANGED <<createCalls, issued>>

\* PGlite.create resolved: the assignment and the success callback; a throw
\* of the callback lands in the catch block, which calls it again
ConnectCreated(c0, throws) ==
    /\ c0 \in InFlight
    /\ c0.pc = "awaitCreate"
    /\ LET c == c0
           inst == Len(engines) + 1
           log1 == Invoke(c.cbLog, c.arg2, <<Null, Handle(c.h), noop>>)
           log2 == Invoke(log1, c.arg2, <<CallbackError, Null, noop>>)
       IN /\ engines' = Append(engines, [owner |-> c.h, closeCalls |-> 0, closed |-> FALSE])
          /\ connection' = [connection EXCEPT ![c.h] = inst]
          /\ Finish(c0, [c EXCEPT !.inst = inst,
                              !.engReturn = [t |-> "engine", v |-> inst],
                              !.cbLog = IF throws[1] THEN log2 ELSE log1,
                              !.cbHeld = IF throws[1] THEN <<inst, inst>> ELSE <<inst>>,
                              !.promise = IF throws[1] /\ throws[2]
                                          THEN Rejected(CallbackError)
                                          ELSE Resolved(Undefined)])
          /\ UNCHANGED <<createCalls, issued>>

\* the catch block keeping a half-built instance on the handle
ConnectFailedStoring(c0, throws) ==
    /\ c0 \in InFlight
    /\ c0.pc = "awaitCreate"
    /\ connection' = [connection EXCEPT ![c0.h] = Len(engines) + 1]
    /\ UNCHANGED <<engines, createCalls, issued>>
    /\ Finish(c0, [c0 EXCEPT
                    !.engReturn = CreateError,
                    !.cbLog = Invoke(c0.cbLog, c0.arg2, <<CreateError, Null, noop>>),
                    !.cbHeld = Append(@, connection[c0.h]),
                    !.promise = IF throws THEN Rejected(CallbackError)
                                ELSE Resolved(Undefined)])

\* PGlite.create threw: the catch block
ConnectFailed(c0, throws) ==
    /\ c0 \in InFlight
    /\ c0.pc = "awaitCreate"
    /\ UNCHANGED <<connection, engines, createCalls, issued>>
    /\ LET c == c0
       IN Finish(c0, [c EXCEPT
                    !.engReturn = CreateError,
                    !.cbLog = Invoke(c.cbLog, c.arg2, <<CreateError, Null, noop>>),
                    !.cbHeld = Append(@, connection[c.h]),
                    !.promise = IF throws THEN Rejected(CallbackError)
                                ELSE Resolved(Undefined)])

(***************************************************************************)
(* query(sqlQuery, paramsOrCb, cb)                                         *)
(***************************************************************************)
\* the call shapes of the two overloads: (sql), (sql, cb), (sql, params),
\* (sql, params, cb)
ParamLists == {Arr(<<Num(42)>>)}

CallShapes ==
    {<<Undefined, Undefined>>, <<Fn("cb2"), Undefined>>} \cup
    {<<p, Undefined>> : p \in ParamLists} \cup
    {<<p, Fn("cb3")>> : p \in ParamLists}

\* let queryCb = cb; let queryParams = paramsOrCb; if (typeof paramsOrCb ...
ResolveCb(paramsOrCb, cb) == IF IsFunction(paramsOrCb) THEN paramsOrCb ELSE cb

ResolveParams(paramsOrCb, cb) == IF IsFunction(paramsOrCb) THEN Undefined ELSE paramsOrCb

\* the callback the multi-statement branch calls
MultiCb(c) == c.arg3

\* the callback the single-statement branch calls
SingleCb(c) == c.queryCb

\* the value the multi-statement branch hands to the callback
MultiCbValue(res) == res

\* the value the single-statement branch hands to the callback
SingleCbValue(results) == results

\* res?.rows, the default left out
NormRowsNoDefault(res) == OptGet(res, "rows")

\* res?.rows ?? []
NormRows(res) == Coalesce(OptGet(res, "rows"), Arr(<<>>))

\* res?.fields ?? []
NormFields(res) == Coalesce(OptGet(res, "fields"), Arr(<<>>))

\* res?.affectedRows || null
NormRowCountFalsy(res) ==
    IF Truthy(OptGet(res, "affectedRows")) THEN OptGet(res, "affectedRows") ELSE Null

\* res?.affectedRows ?? null
NormRowCount(res) == Coalesce(OptGet(res, "affectedRows"), Null)

\* the chain with a final else that guesses SELECT
InferCommandGuessing(parsed) ==
    LET stmt == OptGet(At(Coalesce(OptGet(parsed, "stmts"), Arr(<<>>)), 0), "stmt")
    IN IF Truthy(OptGet(stmt, "UpdateStmt")) THEN Str("UPDATE")
       ELSE IF Truthy(OptGet(stmt, "DeleteStmt")) THEN Str("DELETE")
       ELSE IF Truthy(OptGet(stmt, "InsertStmt")) THEN Str("INSERT")
       ELSE Str("SELECT")

\* the if / else-if chain over parsedSqlQuery?.stmts?.[0]?.stmt?.<Kind>
InferCommand(parsed) ==
    LET stmt == OptGet(At(Coalesce(OptGet(parsed, "stmts"), Arr(<<>>)), 0), "stmt")
    IN IF Truthy(OptGet(stmt, "UpdateStmt")) THEN Str("UPDATE")
       ELSE IF Truthy(OptGet(stmt, "DeleteStmt")) THEN Str("DELETE")
       ELSE IF Truthy(OptGet(stmt, "InsertStmt")) THEN Str("INSERT")
       ELSE IF Truthy(OptGet(stmt, "SelectStmt")) THEN Str("SELECT")
       ELSE Undefined

\* the object the multi-statement branch returns
MultiResult(res) ==
    [t |-> "object", rows |-> NormRows(res), fields |-> NormFields(res),
     rowCount |-> NormRowCount(res)]

\* the object the single-statement branch returns
SingleResult(results, command) ==
    [t |-> "object", rows |-> NormRows(results), fields |-> NormFields(results),
     rowCount |-> NormRowCount(results), command |-> command]

\* const res = results[results.length - 1]
LastResult(results) == At(results, Len(results.v) - 1)

\* const res = results[0]
FirstResult(results) == At(results, 0)

\* parsedSqlQuery.stmts.length > 1
IsMulti(parsed) == Len(parsed.stmts.v) > 1

\* no statement of query assigns this.connection, creates or closes
\* a query that drops the instance of every handle
QueryFrameDropping ==
    /\ connection' = [h \in Handles |-> 0]
    /\ UNCHANGED <<engines, createCalls>>

\* query assigns neither this.connection nor anything of the engine's
QueryFrame == UNCHANGED <<connection, engines, createCalls>>

\* query up to its first await: the initialization check and the
\* resolution of the arguments
QueryCall(h, sql, shape) ==
    /\ issued < MaxCalls
    /\ issued' = issued + 1
    /\ QueryFrame
    /\ LET c == [NewCall("query", h) EXCEPT
                    !.sql = sql, !.arg2 = shape[1], !.arg3 = shape[2],
                    !.before = connection[h]]
       IN IF connection[h] = 0
          THEN Return([c EXCEPT !.promise = Rejected(NotInitializedError)])
          ELSE Await([c EXCEPT !.pc = "awaitImport",
                                 !.queryCb = ResolveCb(shape[1], shape[2]),
                                 !.queryParams = ResolveParams(shape[1], shape[2])])

\* a throw inside one of the try blocks: the catch calls the branch's
\* callback and rethrows; a throw of that callback replaces the error
Caught(old, c, cb, error, throws) ==
    Finish(old, [c EXCEPT !.cbLog = Invoke(c.cbLog, cb, <<error, Null>>),
                     !.promise = IF throws THEN Rejected(CallbackError)
                                 ELSE Rejected(error)])

\* query with its text and parameters kept on the handle, where the calls
\* in flight overwrite each other's
QueryParseSharedArgs(c0, throws) ==
    /\ c0 \in InFlight
    /\ c0.pc = "awaitImport"
    /\ QueryFrame
    /\ UNCHANGED issued
    /\ \E d \in InFlight :
       /\ d.kind = "query"
       /\ d.h = c0.h
       /\ LET c == [c0 EXCEPT !.parseCalls = 1]
              h == c.h
          IN IF ParseFails(d.sql)
             THEN /\ throws = FALSE
                  /\ Finish(c0, [c EXCEPT !.promise = Rejected(ParseError)])
             ELSE LET multi == IsMulti(parseQuerySync(d.sql))
                      cb == IF multi THEN MultiCb(c) ELSE SingleCb(c)
                      call == IF multi
                              THEN [inst |-> connection[h], op |-> "exec", sql |-> d.sql,
                                    params |-> Undefined]
                              ELSE [inst |-> connection[h], op |-> "query", sql |-> d.sql,
                                    params |-> d.queryParams]
                  IN IF connection[h] = 0
                     THEN /\ throws \in MayThrow(cb)
                          /\ Caught(c0, [c EXCEPT !.path = IF multi THEN "multi" ELSE "single"],
                                    cb, NullDerefError, throws)
                     ELSE /\ throws = FALSE
                          /\ Suspend(c0, [c EXCEPT !.path = IF multi THEN "multi" ELSE "single",
                                               !.pc = IF multi THEN "awaitExec" ELSE "awaitQuery",
                                               !.inst = connection[h],
                                               !.engCalls = Append(@, call)])

\* query handing exec the first statement of a script only
QueryParseFirstStatementOnly(c0, throws) ==
    /\ c0 \in InFlight
    /\ c0.pc = "awaitImport"
    /\ QueryFrame
    /\ UNCHANGED issued
    /\ LET c == [c0 EXCEPT !.parseCalls = 1]
           h == c.h
       IN IF ParseFails(c.sql)
          THEN /\ throws = FALSE
               /\ Finish(c0, [c EXCEPT !.promise = Rejected(ParseError)])
          ELSE LET multi == IsMulti(parseQuerySync(c.sql))
                   cb == IF multi THEN MultiCb(c) ELSE SingleCb(c)
                   call == IF multi
                           THEN [inst |-> connection[h], op |-> "exec", sql |-> <<c.sql[1]>>,
                                 params |-> Undefined]
                           ELSE [inst |-> connection[h], op |-> "query", sql |-> c.sql,
                                 params |-> c.queryParams]
               IN IF connection[h] = 0
                  THEN /\ throws \in MayThrow(cb)
                       /\ Caught(c0, [c EXCEPT !.path = IF multi THEN "multi" ELSE "single"],
                                 cb, NullDerefError, throws)
                  ELSE /\ throws = FALSE
                       /\ Suspend(c0, [c EXCEPT !.path = IF multi THEN "multi" ELSE "single",
                                            !.pc = IF multi THEN "awaitExec" ELSE "awaitQuery",
                                            !.inst = connection[h],
                                            !.engCalls = Append(@, call)])

\* query running each single statement on a connection of its own, as a
\* pool of several connections does
QueryParsePooled(c0, throws) ==
    /\ c0 \in InFlight
    /\ c0.pc = "awaitImport"
    /\ QueryFrame
    /\ UNCHANGED issued
    /\ LET c == [c0 EXCEPT !.parseCalls = 1]
           h == c.h
       IN IF ParseFails(c.sql)
          THEN /\ throws = FALSE
               /\ Finish(c0, [c EXCEPT !.promise = Rejected(ParseError)])
          ELSE LET multi == IsMulti(parseQuerySync(c.sql))
                   cb == IF multi THEN MultiCb(c) ELSE SingleCb(c)
                   call == IF multi
                           THEN [inst |-> connection[h], op |-> "exec", sql |-> c.sql,
                                 params |-> Undefined]
                           ELSE [inst |-> connection[h] + issued, op |-> "query", sql |-> c.sql,
                                 params |-> c.queryParams]
               IN IF connection[h] = 0
                  THEN /\ throws \in MayThrow(cb)
                       /\ Caught(c0, [c EXCEPT !.path = IF multi THEN "multi" ELSE "single"],
                                 cb, NullDerefError, throws)
                  ELSE /\ throws = FALSE
                       /\ Suspend(c0, [c EXCEPT !.path = IF multi THEN "multi" ELSE "single",
                                            !.pc = IF multi THEN "awaitExec" ELSE "awaitQuery",
                                            !.inst = connection[h],
                                            !.engCalls = Append(@, call)])

\* after the import: parseQuerySync, the choice of the branch and the call
\* of the engine on this.connection
QueryParse(c0, throws) ==
    /\ c0 \in InFlight
    /\ c0.pc = "awaitImport"
    /\ QueryFrame
    /\ UNCHANGED issued
    /\ LET c == [c0 EXCEPT !.parseCalls = 1]
           h == c.h
       IN IF ParseFails(c.sql)
          THEN /\ throws = FALSE
               /\ Finish(c0, [c EXCEPT !.promise = Rejected(ParseError)])
          ELSE LET multi == IsMulti(parseQuerySync(c.sql))
                   cb == IF multi THEN MultiCb(c) ELSE SingleCb(c)
                   call == IF multi
                           THEN [inst |-> connection[h], op |-> "exec", sql |-> c.sql,
                                 params |-> Undefined]
                           ELSE [inst |-> connection[h], op |-> "query", sql |-> c.sql,
                                 params |-> c.queryParams]
               IN IF connection[h] = 0
                  THEN /\ throws \in MayThrow(cb)
                       /\ Caught(c0, [c EXCEPT !.path = IF multi THEN "multi" ELSE "single"],
                                 cb, NullDerefError, throws)
                  ELSE /\ throws = FALSE
                       /\ Suspend(c0, [c EXCEPT !.path = IF multi THEN "multi" ELSE "single",
                                            !.pc = IF multi THEN "awaitExec" ELSE "awaitQuery",
                                            !.inst = connection[h],
                                            !.engCalls = Append(@, call)])

\* connection.exec resolved
ExecResolved(c0, results, throws) ==
    /\ c0 \in InFlight
    /\ c0.pc = "awaitExec"
    /\ QueryFrame
    /\ UNCHANGED issued
    /\ LET c == [c0 EXCEPT !.engReturn = results]
           cb == MultiCb(c)
           res == FirstResult(results)
           called == [c EXCEPT !.cbLog = Invoke(c.cbLog, cb, <<Null, MultiCbValue(res)>>)]
       IN /\ throws \in MayThrow(cb)
          /\ IF throws
             THEN Caught(c0, called, cb, CallbackError, FALSE)
             ELSE Finish(c0, [called EXCEPT !.promise = Resolved(MultiResult(res))])

\* connection.exec threw
ExecRejected(c0, throws) ==
    /\ c0 \in InFlight
    /\ c0.pc = "awaitExec"
    /\ QueryFrame
    /\ UNCHANGED issued
    /\ throws \in MayThrow(MultiCb(c0))
    /\ Caught(c0, c0, MultiCb(c0), ExecError, throws)

\* connection.query resolved
QueryResolved(c0, results, throws) ==
    /\ c0 \in InFlight
    /\ c0.pc = "awaitQuery"
    /\ QueryFrame
    /\ UNCHANGED issued
    /\ LET c == [c0 EXCEPT !.engReturn = results]
           cb == SingleCb(c)
           command == InferCommand(parseQuerySync(c.sql))
           called == [c EXCEPT !.cbLog = Invoke(c.cbLog, cb, <<Null, SingleCbValue(results)>>)]
       IN /\ throws \in MayThrow(cb)
          /\ IF throws
             THEN Caught(c0, called, cb, CallbackError, FALSE)
             ELSE Finish(c0, [called EXCEPT !.promise = Resolved(SingleResult(results, command))])

\* connection.query threw and the call is issued once more
QueryRejectedRetrying(c0, throws) ==
    /\ c0 \in InFlight
    /\ c0.pc = "awaitQuery"
    /\ QueryFrame
    /\ UNCHANGED issued
    /\ throws \in MayThrow(SingleCb(c0))
    /\ IF Len(c0.engCalls) < 2
       THEN /\ throws = FALSE
            /\ Suspend(c0, [c0 EXCEPT !.engCalls = Append(@, @[1])])
       ELSE Caught(c0, c0, SingleCb(c0), ExecError, throws)

\* connection.query threw
QueryRejected(c0, throws) ==
    /\ c0 \in InFlight
    /\ c0.pc = "awaitQuery"
    /\ QueryFrame
    /\ UNCHANGED issued
    /\ throws \in MayThrow(SingleCb(c0))
    /\ Caught(c0, c0, SingleCb(c0), ExecError, throws)

(***************************************************************************)
(* end(cb)                                                                 *)
(***************************************************************************)
\* this.connection?.close(): on null the whole chain, .then and .catch
\* included, is skipped
EndCall(h) ==
    /\ issued < MaxCalls
    /\ issued' = issued + 1
    /\ UNCHANGED <<connection, createCalls>>
    /\ LET c == [NewCall("end", h) EXCEPT
                    !.arg2 = Fn("cb"), !.before = connection[h]]
           inst == connection[h]
       IN IF inst = 0
          THEN /\ UNCHANGED engines
               /\ Return([c EXCEPT !.promise = Resolved(Undefined)])
          ELSE /\ engines' = [engines EXCEPT ![inst].closeCalls = @ + 1]
               /\ Await([c EXCEPT !.pc = "awaitClose", !.inst = inst, !.closeCalls = 1,
                                    !.promise = Resolved(Undefined)])

\* the .then handler calling cb(null) before it clears the instance
EndClosedCallbackFirst(c0, throws) ==
    /\ c0 \in InFlight
    /\ c0.pc = "awaitClose"
    /\ LET log1 == Invoke(c0.cbLog, c0.arg2, <<Null>>)
           log2 == Invoke(log1, c0.arg2, <<CallbackError>>)
           held == connection[c0.h]
       IN /\ engines' = [engines EXCEPT ![c0.inst].closed = TRUE]
          /\ connection' = [connection EXCEPT ![c0.h] = IF throws THEN held ELSE 0]
          /\ Finish(c0, [c0 EXCEPT !.cbLog = IF throws THEN log2 ELSE log1,
                                   !.cbHeld = IF throws THEN <<held, held>> ELSE <<held>>])
    /\ UNCHANGED <<createCalls, issued>>

\* the .then handler leaving the closed instance stored
EndClosedKeeping(c0, throws) ==
    /\ c0 \in InFlight
    /\ c0.pc = "awaitClose"
    /\ LET c == c0
           log1 == Invoke(c.cbLog, c.arg2, <<Null>>)
           log2 == Invoke(log1, c.arg2, <<CallbackError>>)
       IN /\ engines' = [engines EXCEPT ![c.inst].closed = TRUE]
          /\ UNCHANGED connection
          /\ Finish(c0, [c EXCEPT !.cbLog = IF throws THEN log2 ELSE log1,
                                  !.cbHeld = IF throws THEN <<0, 0>> ELSE <<0>>])
    /\ UNCHANGED <<createCalls, issued>>

\* close resolved: the .then handler; a throw of cb lands in .catch
EndClosed(c0, throws) ==
    /\ c0 \in InFlight
    /\ c0.pc = "awaitClose"
    /\ LET c == c0
           log1 == Invoke(c.cbLog, c.arg2, <<Null>>)
           log2 == Invoke(log1, c.arg2, <<CallbackError>>)
       IN /\ engines' = [engines EXCEPT ![c.inst].closed = TRUE]
          /\ connection' = [connection EXCEPT ![c.h] = 0]
          /\ Finish(c0, [c EXCEPT !.cbLog = IF throws THEN log2 ELSE log1,
                                  !.cbHeld = IF throws THEN <<0, 0>> ELSE <<0>>])
    /\ UNCHANGED <<createCalls, issued>>

\* the .catch handler clearing the stored instance as well
EndCloseFailedClearing(c0) ==
    /\ c0 \in InFlight
    /\ c0.pc = "awaitClose"
    /\ connection' = [connection EXCEPT ![c0.h] = 0]
    /\ UNCHANGED <<engines, createCalls, issued>>
    /\ Finish(c0, [c0 EXCEPT !.engReturn = CloseError,
                             !.cbLog = Invoke(c0.cbLog, c0.arg2, <<CloseError>>),
                             !.cbHeld = Append(@, 0)])

\* close threw: the .catch handler
EndCloseFailed(c0) ==
    /\ c0 \in InFlight
    /\ c0.pc = "awaitClose"
    /\ UNCHANGED <<connection, engines, createCalls, issued>>
    /\ LET c == c0
       IN Finish(c0, [c EXCEPT !.engReturn = CloseError,
                               !.cbLog = Invoke(c.cbLog, c.arg2, <<CloseError>>),
                               !.cbHeld = Append(@, connection[c.h])])

(***************************************************************************)
(* Properties.  They read a call as its caller observes it once it has run *)
(* to completion: `settled`.                                               *)
(***************************************************************************)
\* the callback the caller supplied, by the documented call shapes
SuppliedCallback(c) == IF c.arg2.t = "function" THEN c.arg2 ELSE c.arg3

\* the parameters the caller supplied
SuppliedParams(c) == IF c.arg2.t = "function" THEN Undefined ELSE c.arg2

QuerySettled == settled.kind = "query" /\ settled.pc = "done"

QueryResolvedOk == QuerySettled /\ settled.promise.state = "resolved"

QueryRejectedWith(errors) ==
    QuerySettled /\ settled.promise.state = "rejected" /\ settled.promise.value \in errors

\* the SQL text of the settled call has one statement / several statements
OneStatement == Len(settled.sql) = 1 /\ ~ParseFails(settled.sql)
SeveralStatements == Len(settled.sql) > 1 /\ ~ParseFails(settled.sql)

\* the engine result object the settled call's result is taken from
UsedResult ==
    IF SeveralStatements
    THEN IF Len(settled.engReturn.v) > 0 THEN settled.engReturn.v[1] ELSE Undefined
    ELSE settled.engReturn

\* the instances of handle h that were created and not closed
LiveInstances(h) == {i \in DOMAIN engines : engines[i].owner = h /\ ~engines[i].closed}

NoCloseInvoked == \A i \in DOMAIN engines : engines[i].closeCalls = 0

\* C1: as long as only connect calls act on a handle (no close was invoked),
\* overlapping ones included, the handle has at most one engine instance
\* created for it, and every created instance is the one the handle holds.
C1_SingleEngineInstance ==
    NoCloseInvoked =>
        \A h \in Handles :
            /\ Cardinality(LiveInstances(h)) <= 1
            /\ \A i \in LiveInstances(h) : connection[h] = i

\* C2: a query with a callback, made while the handle holds no instance, is
\* rejected with the not-initialized error, its callback is called with that
\* same error, and neither the parser nor the engine is called.
C2_NotInitializedOnBothChannels ==
    (QuerySettled /\ settled.before = 0 /\ IsFunction(SuppliedCallback(settled))) =>
        /\ settled.promise = Rejected(NotInitializedError)
        /\ settled.cbLog = <<[fn |-> SuppliedCallback(settled).v,
                              args |-> <<NotInitializedError, Null>>]>>
        /\ settled.parseCalls = 0
        /\ settled.engCalls = <<>>

\* C3: an end call on a handle that holds no instance has called its
\* callback with null once it has run to completion, and has closed nothing.
C3_EndWithoutInstanceCallsBack ==
    (settled.kind = "end" /\ settled.pc = "done" /\ settled.before = 0) =>
        /\ settled.cbLog = <<[fn |-> "cb", args |-> <<Null>>]>>
        /\ settled.closeCalls = 0

\* C4: whenever a query resolves, every success value handed to its callback
\* is the value the deferred result resolved with.
C4_CallbackSeesResolvedValue ==
    QueryResolvedOk =>
        \A i \in DOMAIN settled.cbLog :
            settled.cbLog[i].args[1] = Null =>
                settled.cbLog[i].args[2] = settled.promise.value

\* C5: a query with a callback that fails with a parse error or an engine
\* error calls the callback exactly once, with that error and a null result,
\* and rejects the deferred result with the same error.
C5_FailureOnBothChannels ==
    (QueryRejectedWith({ParseError, ExecError}) /\ IsFunction(SuppliedCallback(settled))) =>
        settled.cbLog = <<[fn |-> SuppliedCallback(settled).v,
                           args |-> <<settled.promise.value, Null>>]>>

\* C6: once the engine has answered a query, the callback resolved from the
\* call shape is the one that was called, on either path, and the engine got
\* no parameters when the second argument was the callback.
C6_ResolvedCallbackIsCalled ==
    (QuerySettled /\ settled.engCalls # <<>> /\ settled.promise.value # NullDerefError) =>
        /\ IsFunction(SuppliedCallback(settled)) =>
              /\ settled.cbLog # <<>>
              /\ \A i \in DOMAIN settled.cbLog :
                    settled.cbLog[i].fn = SuppliedCallback(settled).v
        /\ IsFunction(settled.arg2) => settled.engCalls[1].params = Undefined
        /\ (~IsFunction(settled.arg2) /\ OneStatement) =>
              settled.engCalls[1].params = settled.arg2

\* C7: a query of several statements makes one exec call with the SQL text
\* and no parameters; when it resolves, rows, fields and rowCount are those
\* of the first statement's result object and there is no command.
C7_MultiStatementPath ==
    (QuerySettled /\ SeveralStatements /\ settled.engCalls # <<>>) =>
        /\ settled.engCalls = <<[inst |-> settled.inst, op |-> "exec",
                                 sql |-> settled.sql, params |-> Undefined]>>
        /\ settled.promise.state = "rejected" =>
              settled.promise.value \in {ExecError, CallbackError}
        /\ settled.promise.state = "resolved" =>
              LET first == UsedResult
                  value == settled.promise.value
              IN /\ value.rows = IF IsNullish(first) \/ IsNullish(first.rows)
                                 THEN Arr(<<>>) ELSE first.rows
                 /\ value.fields = IF IsNullish(first) \/ IsNullish(first.fields)
                                   THEN Arr(<<>>) ELSE first.fields
                 /\ value.rowCount = IF IsNullish(first) \/ IsNullish(first.affectedRows)
                                     THEN Null ELSE first.affectedRows
                 /\ Get(value, "command") = Undefined

C7_Witness ==
    /\ QueryResolvedOk /\ SeveralStatements
    /\ SuppliedParams(settled) = Arr(<<Num(42)>>)
    /\ Len(settled.engReturn.v) = 2
    /\ settled.promise.value.rows = Arr(<<Row1>>)

\* the verb table
VerbOf(kind) ==
    CASE kind = "UpdateStmt" -> Str("UPDATE")
      [] kind = "DeleteStmt" -> Str("DELETE")
      [] kind = "InsertStmt" -> Str("INSERT")
      [] kind = "SelectStmt" -> Str("SELECT")
      [] OTHER -> Undefined

\* C8: a resolved query of exactly one statement has the command of the verb
\* table for update, delete, insert and select statements, and no command
\* for any other statement kind.
C8_CommandVerb ==
    (QueryResolvedOk /\ OneStatement) =>
        Get(settled.promise.value, "command") = VerbOf(settled.sql[1])

C8_Witness ==
    /\ QueryResolvedOk
    /\ settled.sql = <<"SelectStmt">>
    /\ settled.promise.value.command = Str("SELECT")

\* C9: in a resolved query's result, rowCount is null exactly when the
\* engine result used reports no affected-row figure, and is the figure
\* otherwise, 0 included.
C9_RowCount ==
    QueryResolvedOk =>
        LET figure == OptGet(UsedResult, "affectedRows")
            rowCount == settled.promise.value.rowCount
        IN /\ (rowCount = Null) <=> IsNullish(figure)
           /\ ~IsNullish(figure) => rowCount = figure

C9_Witness ==
    /\ QueryResolvedOk
    /\ OptGet(UsedResult, "affectedRows") = Num(0)
    /\ settled.promise.value.rowCount = Num(0)

\* C10: in a resolved query's result, rows and fields are arrays: the
\* engine's when it gave one, the empty array otherwise, also when exec
\* returned no result object.
C10_RowsAndFieldsDefined ==
    QueryResolvedOk =>
        LET value == settled.promise.value
            rows == OptGet(UsedResult, "rows")
            fields == OptGet(UsedResult, "fields")
        IN /\ "rows" \in DOMAIN value /\ "fields" \in DOMAIN value
           /\ value.rows.t = "array" /\ value.fields.t = "array"
           /\ value.rows = IF rows.t = "array" THEN rows ELSE Arr(<<>>)
           /\ value.fields = IF fields.t = "array" THEN fields ELSE Arr(<<>>)

C10_Witness ==
    /\ QueryResolvedOk /\ SeveralStatements
    /\ settled.engReturn = Arr(<<>>)
    /\ settled.promise.value.rows = Arr(<<>>)
    /\ settled.promise.value.fields = Arr(<<>>)

ConnectSettled == settled.kind = "connect" /\ settled.pc = "done"

EndSettled == settled.kind = "end" /\ settled.pc = "done"

\* C11: a connect whose creation fails calls back once with (the creation
\* error, null, noop), made one creation call, stores nothing and leaves the
\* handle as it was; a handle without a successful creation holds nothing,
\* a query on a handle that holds nothing fails with the not-initialized
\* error without an engine call, and a connect on it attempts creation.
C11_CreateFailure ==
    /\ (ConnectSettled /\ settled.engReturn = CreateError) =>
          /\ settled.cbLog = <<[fn |-> "callback", args |-> <<CreateError, Null, noop>>]>>
          /\ settled.createCalls = 1
          /\ settled.inst = 0
          /\ settled.after = settled.resumed
    /\ engines = <<>> => \A h \in Handles : connection[h] = 0
    /\ (QuerySettled /\ settled.before = 0) =>
          /\ settled.promise = Rejected(NotInitializedError)
          /\ settled.engCalls = <<>>
    /\ (ConnectSettled /\ settled.before = 0) => settled.createCalls = 1

C11_Witness ==
    /\ QuerySettled
    /\ settled.promise = Rejected(NotInitializedError)
    /\ engines = <<>>
    /\ createCalls[settled.h] = 2
    /\ BagCardinality(calls) = 1

\* the calls the properties can see: those in flight and the settled one
Observed == InFlight \cup {settled}

\* C12: an end whose close fails calls back once with the close error and
\* leaves the stored instance as it was; every end on a handle that holds an
\* instance calls close on that instance, so a later end tries it again.
C12_CloseFailure ==
    /\ (EndSettled /\ settled.engReturn = CloseError) =>
          /\ settled.cbLog = <<[fn |-> "cb", args |-> <<CloseError>>]>>
          /\ settled.after = settled.resumed
    /\ \A c \in Observed :
          (c.kind = "end" /\ c.before # 0) => (c.inst = c.before /\ c.closeCalls = 1)

C12_Witness ==
    /\ EndSettled
    /\ settled.engReturn = CloseError
    /\ connection[settled.h] = settled.inst
    /\ engines[settled.inst].closeCalls = 2
    /\ calls = EmptyBag

\* the settled call is an end whose close call succeeded
EndCloseSucceeded(c) ==
    c.kind = "end" /\ c.pc = "done" /\ c.closeCalls = 1 /\ c.engReturn # CloseError

\* C13: an end whose close succeeds has cleared the stored instance by the
\* time it calls back with null; and every step that clears a stored
\* instance is the completion of an end call on that handle whose close
\* succeeded (never the call of close, never a failed close).
C13_ClearedOnCloseSuccess ==
    /\ [](EndCloseSucceeded(settled) =>
            /\ settled.after = 0
            /\ settled.cbLog[1] = [fn |-> "cb", args |-> <<Null>>]
            /\ settled.cbHeld[1] = 0)
    /\ [][\A h \in Handles :
            (connection[h] # 0 /\ connection'[h] = 0) =>
                /\ BagCardinality(calls') < BagCardinality(calls)
                /\ EndCloseSucceeded(settled')
                /\ settled'.h = h]_vars

C13_Witness ==
    /\ EndCloseSucceeded(settled)
    /\ settled.resumed # 0
    /\ connection[settled.h] = 0
    /\ settled.cbLog = <<[fn |-> "cb", args |-> <<Null>>]>>
    /\ settled.cbHeld = <<0>>

\* C14: a connect on a handle that holds an instance calls back once with
\* (null, the handle, noop), makes no creation call and leaves the stored
\* instance as it was.
C14_ConnectWhenConnected ==
    (ConnectSettled /\ settled.before # 0) =>
        /\ settled.cbLog = <<[fn |-> "callback", args |-> <<Null, Handle(settled.h), noop>>]>>
        /\ settled.createCalls = 0
        /\ settled.after = settled.before
        /\ settled.cbHeld = <<settled.before>>

C14_Witness ==
    /\ ConnectSettled
    /\ settled.before # 0
    /\ connection[settled.h] = settled.before
    /\ createCalls[settled.h] = 1
    /\ Len(engines) = 1

\* the instances created for handle h
InstancesOf(h) == {i \in DOMAIN engines : engines[i].owner = h}

\* C15: a handle that created its engine once has close invoked on that
\* instance at most once, whatever end calls are made (repeated or
\* overlapping), and exactly once when the handle has been closed.
C15_ClosedExactlyOnce ==
    \A h \in Handles :
        Cardinality(InstancesOf(h)) = 1 =>
            \A i \in InstancesOf(h) :
                /\ engines[i].closeCalls <= 1
                /\ engines[i].closed => engines[i].closeCalls = 1

\* the text has a statement the parser rejects
Unparseable(sql) == "?" \in {sql[i] : i \in DOMAIN sql}

\* C18: a query whose SQL text fails to parse makes no engine call, neither
\* query nor exec, leaves the handle holding what it held, and fails with
\* the parser's error: the deferred result is rejected with it and no other
\* value reaches the caller.
C18_ParseFailure ==
    /\ \A c \in Observed :
          (c.kind = "query" /\ Unparseable(c.sql)) => c.engCalls = <<>>
    /\ (QuerySettled /\ Unparseable(settled.sql) /\ settled.parseCalls = 1) =>
          /\ settled.promise = Rejected(ParseError)
          /\ \A i \in DOMAIN settled.cbLog : settled.cbLog[i].args[1] = ParseError
          /\ settled.after = settled.resumed

C18_Witness ==
    /\ QuerySettled
    /\ settled.sql = <<"?">>
    /\ settled.parseCalls = 1
    /\ settled.promise = Rejected(ParseError)
    /\ settled.engCalls = <<>>
    /\ connection[settled.h] # 0

\* the call ran into this.connection being null after its initialization
\* check had passed
SawNullDeref(c) ==
    \/ c.promise = Rejected(NullDerefError)
    \/ \E i \in DOMAIN c.cbLog : c.cbLog[i].args[1] = NullDerefError

\* C19: no call is retried. A query call issues at most one engine call
\* (exactly one, query or exec, when its text parses and the handle holds an
\* instance), a connect call at most one creation, an end call at most one
\* close, whether the collaborator succeeds or fails; and no call issues a
\* collaborator call of another operation.
C19_NoRetry ==
    /\ \A c \in Observed :
          /\ Len(c.engCalls) <= 1
          /\ c.createCalls <= 1
          /\ c.closeCalls <= 1
          /\ c.kind # "query" => c.engCalls = <<>>
          /\ c.kind # "connect" => c.createCalls = 0
          /\ c.kind # "end" => c.closeCalls = 0
    /\ (/\ QuerySettled
        /\ settled.before # 0
        /\ ~Unparseable(settled.sql)
        /\ ~SawNullDeref(settled)) =>
          /\ Len(settled.engCalls) = 1
          /\ settled.engCalls[1].op = (IF Len(settled.sql) > 1 THEN "exec" ELSE "query")

C19_Witness ==
    /\ QuerySettled
    /\ settled.path = "single"
    /\ settled.promise = Rejected(ExecError)
    /\ Len(settled.engCalls) = 1
    /\ settled.engCalls[1].op = "query"

\* C20: what a handle holds is changed only by connect and end. A step that
\* changes it is the completion of a connect or end call on that handle, so
\* no step of a query (its start, its parse, the resolution or rejection of
\* its engine call, on either path) changes it; and a query that is over
\* left the handle holding what it held.
C20_OnlyConnectAndEndAssign ==
    /\ [](QuerySettled => settled.after = settled.resumed)
    /\ [][\A h \in Handles :
            connection'[h] # connection[h] =>
                /\ BagCardinality(calls') < BagCardinality(calls)
                /\ settled'.kind \in {"connect", "end"}
                /\ settled'.pc = "done"
                /\ settled'.h = h]_vars

C20_Witness ==
    /\ QuerySettled
    /\ settled.promise = Rejected(ExecError)
    /\ settled.path = "multi"
    /\ settled.resumed # 0
    /\ settled.after = settled.resumed
    /\ connection[settled.h] = settled.before

\* the engine's answer to the call's own engine call: what connection.query
\* resolved with, or the first entry of what connection.exec resolved with
OwnAnswer(c) ==
    IF c.engReturn.t = "array" THEN At(c.engReturn, 0) ELSE c.engReturn

\* C24: concurrent query calls on a handle are independent. Under every
\* interleaving, the engine call a query makes carries its own SQL text and
\* its own parameters, every callback invoked for it is the one it was
\* given, and what its callback and its deferred result receive on success
\* is computed from the engine's answer to its own call and from its own
\* text.
C24_IndependentCalls ==
    /\ \A c \in Observed :
          c.kind = "query" =>
              /\ \A i \in DOMAIN c.engCalls :
                    /\ c.engCalls[i].sql = c.sql
                    /\ c.engCalls[i].params =
                          (IF Len(c.sql) > 1 THEN Undefined ELSE SuppliedParams(c))
              /\ \A i \in DOMAIN c.cbLog :
                    c.cbLog[i].fn = SuppliedCallback(c).v
    /\ QuerySettled =>
          \A i \in DOMAIN settled.cbLog :
              settled.cbLog[i].args[1] = Null =>
                  settled.cbLog[i].args[2] = OwnAnswer(settled)
    /\ QueryResolvedOk =>
          /\ settled.promise.value.rows =
                Coalesce(OptGet(OwnAnswer(settled), "rows"), Arr(<<>>))
          /\ Len(settled.sql) = 1 =>
                Get(settled.promise.value, "command") = VerbOf(settled.sql[1])

\* a query settled while another one, with another text and another call
\* shape, was waiting for the engine on the same handle
C24_Witness ==
    /\ QueryResolvedOk
    /\ settled.cbLog # <<>>
    /\ \E d \in InFlight :
          /\ d.kind = "query"
          /\ d.h = settled.h
          /\ d.pc \in {"awaitQuery", "awaitExec"}
          /\ d.sql # settled.sql
          /\ SuppliedCallback(d) # SuppliedCallback(settled)

\* the queries that issue their engine call in this step
IssuesEngineCall(c) ==
    /\ c \in BagToSet(calls')
    /\ c.kind = "query"
    /\ c.pc \in {"awaitQuery", "awaitExec"}
    /\ CopiesIn(c, calls') > CopiesIn(c, calls)

\* an end call on handle h is waiting for close
EndInFlight(h) == \E e \in InFlight : e.kind = "end" /\ e.h = h

\* a query call on handle h is in flight
QueryInFlight(h) == \E q \in InFlight : q.kind = "query" /\ q.h = h

C26_QueryCallbackAtMostOnce ==
    QuerySettled => Len(settled.cbLog) <= 1

\* C27: whenever connect's callback is invoked with an error and a null
\* client the handle holds no instance at that moment, and a connect call
\* invokes its callback exactly once, also when the callback throws while it
\* is invoked for the success case.
C27_ConnectCallbackOnce ==
    ConnectSettled =>
        /\ Len(settled.cbLog) = 1
        /\ \A i \in DOMAIN settled.cbLog :
              settled.cbLog[i].args[1] # Null =>
                  /\ settled.cbLog[i].args[2] = Null
                  /\ settled.cbHeld[i] = 0

\* C28: a handle whose end succeeded is as one that never connected. A query
\* made while it holds nothing is rejected with the not-initialized error
\* and calls neither the parser nor the engine; a connect made while it
\* holds nothing calls PGlite.create, and the instance created is a new one:
\* a handle never holds an instance whose close has succeeded.
C28_AfterEndAsNeverConnected ==
    /\ (QuerySettled /\ settled.before = 0) =>
          /\ settled.promise = Rejected(NotInitializedError)
          /\ settled.parseCalls = 0
          /\ settled.engCalls = <<>>
    /\ \A c \in Observed :
          (c.kind = "connect" /\ c.before = 0) =>
              /\ c.createCalls = 1
              /\ (c.pc = "done" /\ c.engReturn # CreateError) =>
                    /\ c.inst # 0
                    /\ c.after = c.inst
                    /\ engines[c.inst].owner = c.h
    /\ \A h \in Handles :
          connection[h] # 0 => ~engines[connection[h]].closed

\* connect, a successful end, and a connect that created a second instance
C28_Witness ==
    /\ ConnectSettled
    /\ settled.before = 0
    /\ Len(engines) = 2
    /\ engines[1].closed
    /\ engines[1].owner = settled.h
    /\ settled.inst = 2
    /\ connection[settled.h] = 2

(***************************************************************************)
(* Two handles of one pool class: the same operations, each on its own     *)
(* connection field.                                                       *)
(***************************************************************************)
HandlePair == {1, 2}

InitPair ==
    /\ connection = [h \in HandlePair |-> 0]
    /\ engines = <<>>
    /\ createCalls = [h \in HandlePair |-> 0]
    /\ issued = 0
    /\ calls = EmptyBag
    /\ settled = NoCall
    /\ pgliteOptions = Undefined
    /\ createOptions = NotYet
    /\ val = NotYet
    /\ serialized = NotYet
    /\ database = NoDatabase

NextPair ==
    \/ \E h \in HandlePair, throws \in BOOLEAN : ConnectCall(h, throws)
    \/ \E c0 \in InFlight, throws \in {<<FALSE, FALSE>>, <<TRUE, FALSE>>, <<TRUE, TRUE>>} :
          ConnectCreated(c0, throws)
    \/ \E c0 \in InFlight, throws \in BOOLEAN : ConnectFailed(c0, throws)
    \/ \E h \in HandlePair, sql \in SqlTexts, shape \in CallShapes : QueryCall(h, sql, shape)
    \/ \E c0 \in InFlight, throws \in BOOLEAN : QueryParse(c0, throws)
    \/ \E c0 \in InFlight, results \in ExecResults, throws \in BOOLEAN :
          ExecResolved(c0, results, throws)
    \/ \E c0 \in InFlight, throws \in BOOLEAN : ExecRejected(c0, throws)
    \/ \E c0 \in InFlight, results \in QueryResults, throws \in BOOLEAN :
          QueryResolved(c0, results, throws)
    \/ \E c0 \in InFlight, throws \in BOOLEAN : QueryRejected(c0, throws)
    \/ \E h \in HandlePair : EndCall(h)
    \/ \E c0 \in InFlight, throws \in BOOLEAN : EndClosed(c0, throws)
    \/ \E c0 \in InFlight : EndCloseFailed(c0)

SpecPair == InitPair /\ [][NextPair]_vars

\* the step is one of a call on handle h: the call is issued, resumes or
\* completes
Acting(h) ==
    \/ settled' # settled /\ settled'.h = h
    \/ \E c \in BagToSet(calls) \cup BagToSet(calls') :
          c.h = h /\ CopiesIn(c, calls') # CopiesIn(c, calls)

\* the step changes what handle h holds, has created, or an instance it
\* created
Touched(h) ==
    \/ connection'[h] # connection[h]
    \/ createCalls'[h] # createCalls[h]
    \/ \E i \in DOMAIN engines' :
          /\ engines'[i].owner = h
          /\ i \in DOMAIN engines => engines'[i] # engines[i]

\* C23: distinct handles are independent. Every instance a call creates,
\* sends an engine call to or closes was created for the call's own handle,
\* a handle holds only an instance created for it, two handles never hold
\* the same instance, and a step of a call on one handle changes neither
\* what another handle holds, nor its count of creations, nor any instance
\* created for it; so what is written through one handle reaches no
\* instance of another.
C23_HandlesIndependent ==
    /\ [](/\ \A c \in Observed :
                /\ c.inst # 0 => engines[c.inst].owner = c.h
                /\ \A i \in DOMAIN c.engCalls :
                      engines[c.engCalls[i].inst].owner = c.h
          /\ \A h \in HandlePair :
                connection[h] # 0 =>
                    /\ engines[connection[h]].owner = h
                    /\ \A g \in HandlePair \ {h} : connection[g] # connection[h])
    /\ [][\A h \in HandlePair : Touched(h) => Acting(h)]_vars

\* both handles hold an instance and a query on one of them was answered
C23_Witness ==
    /\ QueryResolvedOk
    /\ Len(settled.engCalls) = 1
    /\ \A h \in HandlePair : connection[h] # 0
    /\ connection[1] # connection[2]
    /\ settled.engCalls[1].inst = connection[settled.h]

(***************************************************************************)
(* One connected handle whose engine is a database of one table: queries   *)
(* are issued one after the other, and the engine runs the text of each    *)
(* engine call between the call and its answer.                            *)
(***************************************************************************)
\* the row an insert adds, and the column of the table
RowOf(x) == [t |-> "object", name |-> Str(x)]
NameField == [t |-> "object", name |-> Str("name"), dataTypeID |-> Num(25)]

\* the table and the open transaction, if any, with the table as it was at
\* BEGIN
Table(exists, rows) == [exists |-> exists, rows |-> rows]
Store(table, tx, saved) == [table |-> table, tx |-> tx, saved |-> saved]

NoTable == Table(FALSE, <<>>)

\* the engine runs one statement: the store after it and its result, or the
\* error it throws
RunStatement(st, stmt) ==
    LET done(st2, rows, n) ==
            [store |-> st2, result |-> EngineResult(Arr(rows), Arr(<<>>), Num(n))]
        fails == [store |-> st, result |-> ExecError]
    IN CASE stmt = "CreateStmt" ->
                IF st.table.exists THEN fails
                ELSE done([st EXCEPT !.table = Table(TRUE, <<>>)], <<>>, 0)
         [] stmt \in DOMAIN InsertedValue ->
                IF ~st.table.exists THEN fails
                ELSE done([st EXCEPT !.table.rows = Append(@, InsertedValue[stmt])], <<>>, 1)
         [] stmt = "SelectStmt" ->
                IF ~st.table.exists THEN fails
                ELSE [store |-> st,
                      result |-> EngineResult(
                          Arr([i \in DOMAIN st.table.rows |-> RowOf(st.table.rows[i])]),
                          Arr(<<NameField>>), Num(0))]
         [] stmt = "BEGIN" ->
                IF st.tx THEN done(st, <<>>, 0)
                ELSE done([st EXCEPT !.tx = TRUE, !.saved = st.table], <<>>, 0)
         [] stmt = "COMMIT" -> done([st EXCEPT !.tx = FALSE], <<>>, 0)
         [] stmt = "ROLLBACK" ->
                IF st.tx THEN done([st EXCEPT !.tx = FALSE, !.table = st.saved], <<>>, 0)
                ELSE done(st, <<>>, 0)
         [] OTHER -> fails

\* the engine runs the statements of a text in their order; it stops at the
\* first one that throws
RECURSIVE RunText(_, _, _)
RunText(st, stmts, results) ==
    IF stmts = <<>> THEN [store |-> st, results |-> results, threw |-> FALSE]
    ELSE LET out == RunStatement(st, Head(stmts))
         IN IF out.result = ExecError
            THEN [store |-> st, results |-> results, threw |-> TRUE]
            ELSE RunText(out.store, Tail(stmts), Append(results, out.result))

\* the texts issued: each statement alone, and the script of the test
Script == <<"CreateStmt", "InsertA", "InsertB">>

DatabaseTexts ==
    {<<k>> : k \in {"CreateStmt", "InsertA", "InsertB", "SelectStmt",
                    "BEGIN", "COMMIT", "ROLLBACK"}}
    \cup {Script}

DatabaseShapes == {<<Undefined, Undefined>>, <<Fn("cb2"), Undefined>>}

\* the databases the engine may hold when the first of the queries is
\* issued: none yet, or the table with a committed row and a transaction
\* begun after it
FreshStore == Store(NoTable, FALSE, NoTable)
InTransactionStore == Store(Table(TRUE, <<"a">>), TRUE, Table(TRUE, <<"a">>))

\* database: the store, the store the queries started from, the texts the
\* engine ran with whether each threw, and the answer to the engine call of
\* the call issued as number `served`
InitDatabases ==
    {[t |-> "database", store |-> st, origin |-> st, log |-> <<>>,
      served |-> 0, answer |-> Undefined] : st \in {FreshStore, InTransactionStore}}

InitDatabase ==
    /\ connection = [h \in Handles |-> IF h = 1 THEN 1 ELSE 0]
    /\ engines = <<[owner |-> 1, closeCalls |-> 0, closed |-> FALSE]>>
    /\ createCalls = [h \in Handles |-> IF h = 1 THEN 1 ELSE 0]
    /\ issued = 0
    /\ calls = EmptyBag
    /\ settled = NoCall
    /\ pgliteOptions = Undefined
    /\ createOptions = NotYet
    /\ val = NotYet
    /\ serialized = NotYet
    /\ database \in InitDatabases

\* the engine runs the text of the engine call in flight, on the database of
\* the instance the call was made on (the handle's is instance 1; any other
\* instance starts empty); a text that threw part way leaves its earlier
\* statements done or undone
EngineExecute(c0) ==
    /\ c0 \in InFlight
    /\ c0.pc \in {"awaitQuery", "awaitExec"}
    /\ database.served # issued
    /\ LET call == c0.engCalls[1]
           out == RunText(IF call.inst = 1 THEN database.store ELSE FreshStore,
                          call.sql, <<>>)
       IN \E kept \in (IF out.threw THEN {out.store, database.store} ELSE {out.store}) :
             database' = [database EXCEPT
                 !.store = IF call.inst = 1 THEN kept ELSE @,
                 !.log = Append(@, [sql |-> call.sql, threw |-> out.threw]),
                 !.served = issued,
                 !.answer = IF out.threw THEN ExecError
                            ELSE IF call.op = "exec" THEN Arr(out.results)
                            ELSE out.results[1]]
    /\ UNCHANGED poolVars
    /\ UNCHANGED <<pgliteOptions, createOptions, val, serialized>>

Answered == database.served = issued

NextDatabase ==
    \/ \E sql \in DatabaseTexts, shape \in DatabaseShapes :
          calls = EmptyBag /\ QueryCall(1, sql, shape)
    \/ \E c0 \in InFlight, throws \in BOOLEAN : QueryParse(c0, throws)
    \/ \E c0 \in InFlight : EngineExecute(c0)
    \/ \E c0 \in InFlight, throws \in BOOLEAN :
          Answered /\ database.answer # ExecError /\ ExecResolved(c0, database.answer, throws)
    \/ \E c0 \in InFlight, throws \in BOOLEAN :
          Answered /\ database.answer = ExecError /\ ExecRejected(c0, throws)
    \/ \E c0 \in InFlight, throws \in BOOLEAN :
          Answered /\ database.answer # ExecError /\ QueryResolved(c0, database.answer, throws)
    \/ \E c0 \in InFlight, throws \in BOOLEAN :
          Answered /\ database.answer = ExecError /\ QueryRejected(c0, throws)

SpecDatabase == InitDatabase /\ [][NextDatabase]_vars

\* the queries so far are over and the engine ran n texts
RanTexts(n) == calls = EmptyBag /\ Len(database.log) = n

Ran(sql) == [sql |-> sql, threw |-> FALSE]

\* C21: a script of several statements issued through one query call has
\* all its statements run by the engine in textual order although only the
\* first statement's result is returned: when the script CREATE TABLE;
\* INSERT a; INSERT b has resolved, with the result of CREATE TABLE, the
\* table holds a then b, and a SELECT issued next on the handle resolves
\* with exactly the rows a, b in that order.
C21_ScriptRunsInOrder ==
    /\ \A c \in Observed :
          \A i \in DOMAIN c.engCalls : c.engCalls[i].sql = c.sql
    /\ \A n \in 1..Len(database.log) :
          (/\ RanTexts(n)
           /\ database.log[n] = Ran(Script)
           /\ QuerySettled /\ settled.sql = Script) =>
              /\ database.store.table.rows = <<"a", "b">>
              /\ QueryResolvedOk => settled.promise.value.rows = Arr(<<>>)
    /\ \A n \in 2..Len(database.log) :
          (/\ RanTexts(n)
           /\ database.log[n - 1] = Ran(Script)
           /\ database.log[n] = Ran(<<"SelectStmt">>)
           /\ QueryResolvedOk /\ settled.sql = <<"SelectStmt">>) =>
              settled.promise.value.rows = Arr(<<RowOf("a"), RowOf("b")>>)

C21_Witness ==
    /\ RanTexts(2)
    /\ database.log = <<Ran(Script), Ran(<<"SelectStmt">>)>>
    /\ QueryResolvedOk
    /\ settled.sql = <<"SelectStmt">>
    /\ settled.promise.value.rows = Arr(<<RowOf("a"), RowOf("b")>>)

\* C22: queries issued one after the other on a connected handle reach the
\* instance the handle holds, in issue order, so a rolled back transaction
\* leaves no trace: when a transaction was open, nothing committed or
\* rolled back it before, and ROLLBACK then SELECT are the last two texts,
\* the SELECT resolves with exactly the rows the table had when the
\* transaction began, the rows committed earlier among them.
C22_RollbackLeavesNoTrace ==
    /\ \A c \in Observed :
          \A i \in DOMAIN c.engCalls : c.engCalls[i].inst = connection[c.h]
    /\ \A n \in 1..Len(database.log) :
          (RanTexts(n) /\ QuerySettled /\ settled.engCalls # <<>>) =>
              database.log[n].sql = settled.engCalls[1].sql
    /\ \A n \in 2..Len(database.log) :
          (/\ RanTexts(n)
           /\ database.origin.tx
           /\ \A i \in 1..(n - 2) : database.log[i].sql \notin {<<"COMMIT">>, <<"ROLLBACK">>}
           /\ database.log[n - 1] = Ran(<<"ROLLBACK">>)
           /\ database.log[n] = Ran(<<"SelectStmt">>)
           /\ QueryResolvedOk /\ settled.sql = <<"SelectStmt">>) =>
              settled.promise.value.rows =
                  Arr([i \in DOMAIN database.origin.saved.rows |->
                          RowOf(database.origin.saved.rows[i])])

\* a row inserted in the open transaction, the rollback, and the SELECT
\* that finds the committed row only
C22_Witness ==
    /\ RanTexts(3)
    /\ database.origin = InTransactionStore
    /\ database.log = <<Ran(<<"InsertB">>), Ran(<<"ROLLBACK">>), Ran(<<"SelectStmt">>)>>
    /\ QueryResolvedOk
    /\ settled.sql = <<"SelectStmt">>
    /\ settled.promise.value.rows = Arr(<<RowOf("a")>>)

\* C29: every call comes to its end with its outcome delivered. A call that
\* has run to completion, with nothing of it left waiting on a collaborator,
\* has settled its deferred result if it is a query, and has invoked its
\* callback if it is a connect or an end, whatever the handle held.
C29_EveryCallDelivers ==
    settled.pc = "done" =>
        /\ settled.kind = "query" => settled.promise.state \in {"resolved", "rejected"}
        /\ settled.kind \in {"connect", "end"} => settled.cbLog # <<>>

(***************************************************************************)
(* The options of PGlite.create and the boolean serializer on their own:   *)
(* any pgliteOptions, then the options are built and the serializer        *)
(* registered for types.BOOL is applied to values.                         *)
(***************************************************************************)
SerializersInit ==
    /\ connection = [h \in Handles |-> 0]
    /\ engines = <<>>
    /\ createCalls = [h \in Handles |-> 0]
    /\ issued = 0
    /\ calls = EmptyBag
    /\ settled = NoCall
    /\ pgliteOptions \in PgliteOptionsSet
    /\ createOptions = NotYet
    /\ val = NotYet
    /\ serialized = NotYet
    /\ database = NoDatabase

\* connect evaluates the argument of PGlite.create
BuildCreateOptions ==
    /\ createOptions = NotYet
    /\ createOptions' = CreateOptions(pgliteOptions)
    /\ UNCHANGED <<pgliteOptions, val, serialized, database>>
    /\ UNCHANGED poolVars

\* the serializer registered for types.BOOL is called with v
SerializeBoolean(v) ==
    /\ createOptions # NotYet
    /\ val' = v
    /\ serialized' = ApplySerializer(Get(Get(createOptions, "serializers"), "BOOL"), v)
    /\ UNCHANGED <<pgliteOptions, createOptions, database>>
    /\ UNCHANGED poolVars

SerializersNext ==
    \/ BuildCreateOptions
    \/ \E v \in SerializerInputs : SerializeBoolean(v)

SpecSerializers == SerializersInit /\ [][SerializersNext]_vars

\* the built-in serializer is the one registered for types.BOOL
BuiltInRegistered ==
    createOptions # NotYet /\ createOptions.serializers.BOOL = BuiltIn

\* C16: the built-in boolean serializer maps "true", true and 1 to the
\* literal TRUE, "false", false and 0 to the literal FALSE, and returns
\* every other value, null included, unchanged.
C16_BooleanSerializer ==
    (BuiltInRegistered /\ serialized # NotYet) =>
        serialized =
            IF val \in {Str("true"), Bool(TRUE), Num(1)} THEN Str("TRUE")
            ELSE IF val \in {Str("false"), Bool(FALSE), Num(0)} THEN Str("FALSE")
            ELSE val

C16_Witness ==
    BuiltInRegistered /\ val = Num(1) /\ serialized = Str("TRUE")

\* C17: the registry handed to PGlite.create is the key-wise merge of the
\* built-in registry and the caller's: every caller serializer is there
\* under its type identifier (the one for the boolean type replacing the
\* built-in), the built-in boolean serializer is there when the caller gave
\* none for that type, nothing else is there; every other configuration key
\* of the caller is passed through unchanged and none is added.
C17_SerializerMerge ==
    createOptions # NotYet =>
        LET caller == OptGet(pgliteOptions, "serializers")
            callerKeys == IF IsNullish(caller) THEN {} ELSE DOMAIN caller \ {"t"}
            merged == createOptions.serializers
            passed == IF IsNullish(pgliteOptions) THEN {}
                      ELSE DOMAIN pgliteOptions \ {"t", "serializers"}
        IN  /\ DOMAIN merged \ {"t"} = callerKeys \cup {"BOOL"}
            /\ \A k \in callerKeys : merged[k] = caller[k]
            /\ "BOOL" \notin callerKeys => merged.BOOL = BuiltIn
            /\ DOMAIN createOptions \ {"t"} = passed \cup {"serializers"}
            /\ \A k \in passed : createOptions[k] = pgliteOptions[k]

C17_Witness ==
    /\ createOptions # NotYet
    /\ pgliteOptions = ObjectOf(("serializers" :> ObjectOf("TEXT" :> Fn("callerText")))
                                @@ ("dataDir" :> Str("memory://")))
    /\ createOptions.serializers = ObjectOf(("BOOL" :> BuiltIn) @@ ("TEXT" :> Fn("callerText")))
    /\ createOptions.dataDir = Str("memory://")

Next ==
    \/ \E h \in Handles, throws \in BOOLEAN : ConnectCall(h, throws)
    \/ \E c0 \in InFlight, throws \in {<<FALSE, FALSE>>, <<TRUE, FALSE>>, <<TRUE, TRUE>>} :
          ConnectCreated(c0, throws)
    \/ \E c0 \in InFlight, throws \in BOOLEAN : ConnectFailed(c0, throws)
    \/ \E h \in Handles, sql \in SqlTexts, shape \in CallShapes : QueryCall(h, sql, shape)
    \/ \E c0 \in InFlight, throws \in BOOLEAN : QueryParse(c0, throws)
    \/ \E c0 \in InFlight, results \in ExecResults, throws \in BOOLEAN :
          ExecResolved(c0, results, throws)
    \/ \E c0 \in InFlight, throws \in BOOLEAN : ExecRejected(c0, throws)
    \/ \E c0 \in InFlight, results \in QueryResults, throws \in BOOLEAN :
          QueryResolved(c0, results, throws)
    \/ \E c0 \in InFlight, throws \in BOOLEAN : QueryRejected(c0, throws)
    \/ \E h \in Handles : EndCall(h)
    \/ \E c0 \in InFlight, throws \in BOOLEAN : EndClosed(c0, throws)
    \/ \E c0 \in InFlight : EndCloseFailed(c0)

Spec == Init /\ [][Next]_vars

====
